---- MODULE Spec2Model ----
(***************************************************************************)
(* Deposit-to-cbBTC conversion pipeline of orange-refinery:                *)
(*   app/api/webhook/route.ts   POST, processHeliusTransaction             *)
(*   lib/swap                   buildSwapTransaction,                      *)
(*                              submitSwapWithVaultFees,                   *)
(*                              buildSwapFeeToSolTransaction               *)
(*   lib/relayer                MinimalRelayer, getRelayer,                *)
(*                              submitViaRelayer                           *)
(*   lib/vault                  getVaultAddress                            *)
(* JavaScript runs one segment of code at a time; a segment ends at an     *)
(* await.  One action below is one such segment of one webhook request,    *)
(* together with the answer of the awaited call that starts it.  Answers   *)
(* of the network, of the aggregator and of library calls are inputs.      *)
(***************************************************************************)
EXTENDS Integers, Sequences, FiniteSets, TLC

NULL == <<"null">>

(***************************************************************************)
(* Bounds of the model.                                                    *)
(***************************************************************************)
\* transfer events delivered in all webhook requests together
MaxTransfers == 2
\* blocks the chain produces while the requests run
MaxSlot == 1
\* largest deposit amount of the fee arithmetic check
MaxAmount == 2100
\* longest route payload of the encoder check besides the 65535-byte one
MaxRouteLen == 2

\* slots after its own for which a blockhash is still accepted
BlockhashValidity == 0

\* concurrent webhook requests (POST handlers in flight)
Requests == {"r1", "r2"}

(***************************************************************************)
(* Keys.  A public key is a tuple of strings; derived addresses (PDA, ATA) *)
(* are tuples that name what they were derived from.                       *)
(***************************************************************************)
PROGRAM_ID == <<"8FaCEp8fDiBwSiqqg2vmNABvTjVfoe65qZLKT9SNGfhA">>
JUPITER_PROGRAM_ID == <<"JUP6LkbZbjS1jKKwapdHNy74zcZ3tLUZoi5QNyVTaV4">>
FEE_RECIPIENT == <<"GongV8jcP3FEP4FejLaXbwuUVewtRLCVY2Uiw8bHVeGC">>
VAULT_PROGRAM_ID == <<"HKKueNDGHd9fsuThJe7GSDpzWd6H1xeQJ2he75W5uHcZ">>
WNATIVE_MINT == <<"So11111111111111111111111111111111111112">>
TOKEN_PROGRAM_ID == <<"TokenkegQfeZyiNwAJbNbGKPFXCWuBvf9Ss623VQ5DA">>
SystemProgramId == <<"11111111111111111111111111111111">>
\* process.env.NEXT_PUBLIC_CBBTC_MINT
CBBTC_MINT == <<"cbBTC">>
\* the public key of the keypair decoded from process.env.RELAYER_SECRET_KEY
RelayerKey == <<"relayer">>

Owners == {<<"owner1">>}
OtherMint == <<"mintX">>
\* a key that is no vault, and a string that is no key at all
Stranger == <<"stranger">>
NotAKey == <<"invalid">>

\* PublicKey.findProgramAddressSync([Buffer.from("vault"), owner.toBuffer()], PROGRAM_ID)
getVaultAddress(owner) == <<"pda">> \o VAULT_PROGRAM_ID \o <<"vault">> \o owner

\* mutant: the client derives the vault under the instruction program's id
initializeVaultClientAddressOtherProgram(publicKey) ==
    <<"pda">> \o <<"8FaCEp8fDiBwSiqqg2vmNABvTjVfoe65qZLKT9SNGfhA">> \o <<"vault">> \o publicKey

\* PROGRAM_ID of the client module
CLIENT_VAULT_PROGRAM_ID == <<"HKKueNDGHd9fsuThJe7GSDpzWd6H1xeQJ2he75W5uHcZ">>

\* the derivation inside initializeVaultClient:
\* PublicKey.findProgramAddressSync([Buffer.from("vault"), wallet.publicKey.toBuffer()], PROGRAM_ID)
initializeVaultClientAddress(publicKey) ==
    <<"pda">> \o CLIENT_VAULT_PROGRAM_ID \o <<"vault">> \o publicKey

\* getAssociatedTokenAddress(mint, holder, true)
getAssociatedTokenAddress(mint, holder) == <<"ata">> \o mint \o holder

getVaultCbbtcAta(vault) == getAssociatedTokenAddress(CBBTC_MINT, vault)

(***************************************************************************)
(* Byte encoding (BN.toArrayLike, Buffer.writeUInt32LE, Buffer.concat).    *)
(***************************************************************************)
RECURSIVE byteLength(_)
byteLength(n) == IF n = 0 THEN 0 ELSE 1 + byteLength(n \div 256)

RECURSIVE leBytes(_, _)
leBytes(n, len) == IF len = 0 THEN <<>> ELSE <<n % 256>> \o leBytes(n \div 256, len - 1)

\* BN.toArrayLike(Buffer, "le", len) asserts byteLength <= len and throws otherwise
toArrayLikeThrows(n, len) == byteLength(n) > len

\* BN.toArrayLike(Buffer, "le", len): little-endian, zero-padded to len bytes
toArrayLike(n, len) == leBytes(n, len)

\* Buffer.writeUInt32LE(v, 0) throws a RangeError when v is out of range
writeUInt32LEThrows(v) == byteLength(v) > 4

\* mutant: the length is written big-endian
writeUInt32BE(v) == [i \in 1..4 |-> leBytes(v, 4)[5 - i]]

\* Buffer.writeUInt32LE(v, 0) on a 4-byte buffer
writeUInt32LE(v) == leBytes(v, 4)

SWAP_TO_CBBTC_DISCRIMINATOR == <<73, 17, 223, 215, 78, 128, 160, 80>>
SWAP_FEE_TO_SOL_DISCRIMINATOR == <<98, 85, 227, 2, 32, 184, 191, 80>>
COVER_FEE_DISCRIMINATOR == <<64, 23, 219, 120, 75, 63, 68, 190>>

\* the argument serialisation of both swap calls throws when a number does not fit
swapInstructionDataThrows(amountIn, minAmountOut, jupiterSwapData) ==
    \/ toArrayLikeThrows(amountIn, 8)
    \/ toArrayLikeThrows(minAmountOut, 8)
    \/ writeUInt32LEThrows(Len(jupiterSwapData))

\* argsBuffer of both swap calls: amount_in (u64), _min_amount_out (u64),
\* jupiter_swap_data (Vec<u8>: u32 length + bytes)
argsBuffer(amountIn, minAmountOut, jupiterSwapData) ==
    toArrayLike(amountIn, 8) \o toArrayLike(minAmountOut, 8)
        \o writeUInt32LE(Len(jupiterSwapData)) \o jupiterSwapData

\* instructionData = Buffer.concat([discriminator, argsBuffer])
swapInstructionData(discriminator, amountIn, minAmountOut, jupiterSwapData) ==
    discriminator \o argsBuffer(amountIn, minAmountOut, jupiterSwapData)

\* mutant: the fee swap writes the minimum output before the amount
swapFeeToSolArgsBufferSwapped(feeAmount, minAmountOut, jupiterSwapData) ==
    toArrayLike(minAmountOut, 8) \o toArrayLike(feeAmount, 8)
        \o writeUInt32LE(Len(jupiterSwapData)) \o jupiterSwapData

\* argsBuffer of buildSwapFeeToSolTransaction: amountInBN (the fee amount),
\* minAmountOutBN, jupiterDataLength, the route bytes
swapFeeToSolArgsBuffer(feeAmount, minAmountOut, jupiterSwapData) ==
    toArrayLike(feeAmount, 8) \o toArrayLike(minAmountOut, 8)
        \o writeUInt32LE(Len(jupiterSwapData)) \o jupiterSwapData

\* instructionData = Buffer.concat([swapFeeToSolDiscriminator, argsBuffer])
swapFeeToSolInstructionData(feeAmount, minAmountOut, jupiterSwapData) ==
    SWAP_FEE_TO_SOL_DISCRIMINATOR
        \o swapFeeToSolArgsBuffer(feeAmount, minAmountOut, jupiterSwapData)

\* mutant: the fee amount is written big-endian
coverFeeDataBE(estimatedFee) ==
    LET b == leBytes(estimatedFee, 8)
    IN  COVER_FEE_DISCRIMINATOR \o <<b[8], b[7], b[6], b[5], b[4], b[3], b[2], b[1]>>

\* coverFeeData = Buffer.concat([coverFeeDiscriminator, coverFeeArgs])
coverFeeData(estimatedFee) == COVER_FEE_DISCRIMINATOR \o toArrayLike(estimatedFee, 8)

(***************************************************************************)
(* Instructions and transactions (lib/swap).                               *)
(***************************************************************************)
AccountMeta(pubkey, isSigner, isWritable) ==
    [pubkey |-> pubkey, isSigner |-> isSigner, isWritable |-> isWritable]

\* index of the first TRUE of a sequence of test results, 0 when there is none
FindIndex(hits) ==
    IF \E i \in 1..Len(hits) : hits[i]
    THEN CHOOSE i \in 1..Len(hits) : hits[i] /\ \A j \in 1..(i - 1) : ~hits[j]
    ELSE 0

\* mutant: without a Jupiter instruction the first instruction is taken
findJupiterInstructionOrFirst(instructions) ==
    IF \E i \in 1..Len(instructions) : instructions[i].programId = JUPITER_PROGRAM_ID
    THEN FindIndex([i \in 1..Len(instructions) |->
                      instructions[i].programId = JUPITER_PROGRAM_ID])
    ELSE 1

\* swapTransaction.instructions.find((ix) => ix.programId.equals(JUPITER_PROGRAM_ID))
findJupiterInstruction(instructions) ==
    FindIndex([i \in 1..Len(instructions) |->
                  instructions[i].programId = JUPITER_PROGRAM_ID])

\* mutant: a vault that is absent is added as last account
jupiterAccountsPush(keys, vault) ==
    LET i == FindIndex([k \in 1..Len(keys) |-> keys[k].pubkey = vault])
    IN  IF i = 0
        THEN keys \o <<AccountMeta(vault, TRUE, TRUE)>>
        ELSE [keys EXCEPT ![i].isSigner = TRUE]

\* jupiterAccounts: the keys of the Jupiter instruction, with the vault PDA
\* added as first account when absent and marked as signer when present
jupiterAccounts(keys, vault) ==
    LET i == FindIndex([k \in 1..Len(keys) |-> keys[k].pubkey = vault])
    IN  IF i = 0
        THEN <<AccountMeta(vault, TRUE, TRUE)>> \o keys
        ELSE [keys EXCEPT ![i].isSigner = TRUE]

\* mutant: the route's accounts are put before the fixed accounts
swapInstructionRouteFirst(vaultOwner, inputMint, amount, minAmountOut, jupiterInstruction) ==
    LET vault == getVaultAddress(vaultOwner)
    IN  [programId |-> PROGRAM_ID,
         keys |-> jupiterAccounts(jupiterInstruction.keys, vault)
                   \o << AccountMeta(vault, FALSE, FALSE),
                         AccountMeta(vaultOwner, FALSE, FALSE),
                         AccountMeta(inputMint, FALSE, FALSE),
                         AccountMeta(CBBTC_MINT, FALSE, FALSE),
                         AccountMeta(getAssociatedTokenAddress(inputMint, vault), FALSE, TRUE),
                         AccountMeta(getAssociatedTokenAddress(inputMint, FEE_RECIPIENT), FALSE, TRUE),
                         AccountMeta(getVaultCbbtcAta(vault), FALSE, TRUE),
                         AccountMeta(JUPITER_PROGRAM_ID, FALSE, FALSE),
                         AccountMeta(TOKEN_PROGRAM_ID, FALSE, FALSE),
                         AccountMeta(SystemProgramId, FALSE, FALSE) >>,
         data |-> swapInstructionData(SWAP_TO_CBBTC_DISCRIMINATOR, amount, minAmountOut,
                                      jupiterInstruction.data)]

\* the swap_to_cbbtc instruction
swapInstruction(vaultOwner, inputMint, amount, minAmountOut, jupiterInstruction) ==
    LET vault == getVaultAddress(vaultOwner)
    IN  [programId |-> PROGRAM_ID,
         keys |-> << AccountMeta(vault, FALSE, FALSE),
                     AccountMeta(vaultOwner, FALSE, FALSE),
                     AccountMeta(inputMint, FALSE, FALSE),
                     AccountMeta(CBBTC_MINT, FALSE, FALSE),
                     AccountMeta(getAssociatedTokenAddress(inputMint, vault), FALSE, TRUE),
                     AccountMeta(getAssociatedTokenAddress(inputMint, FEE_RECIPIENT), FALSE, TRUE),
                     AccountMeta(getVaultCbbtcAta(vault), FALSE, TRUE),
                     AccountMeta(JUPITER_PROGRAM_ID, FALSE, FALSE),
                     AccountMeta(TOKEN_PROGRAM_ID, FALSE, FALSE),
                     AccountMeta(SystemProgramId, FALSE, FALSE) >>
                   \o jupiterAccounts(jupiterInstruction.keys, vault),
         data |-> swapInstructionData(SWAP_TO_CBBTC_DISCRIMINATOR, amount, minAmountOut,
                                      jupiterInstruction.data)]

\* the swap_fee_to_sol instruction
swapFeeToSolInstruction(vaultOwner, feeTokenMint, feeAmount, minAmountOut, jupiterInstruction) ==
    LET vault == getVaultAddress(vaultOwner)
    IN  [programId |-> PROGRAM_ID,
         keys |-> << AccountMeta(vault, FALSE, TRUE),
                     AccountMeta(vaultOwner, FALSE, FALSE),
                     AccountMeta(feeTokenMint, FALSE, FALSE),
                     AccountMeta(getAssociatedTokenAddress(feeTokenMint, vault), FALSE, TRUE),
                     AccountMeta(FEE_RECIPIENT, FALSE, TRUE),
                     AccountMeta(JUPITER_PROGRAM_ID, FALSE, FALSE),
                     AccountMeta(TOKEN_PROGRAM_ID, FALSE, FALSE),
                     AccountMeta(SystemProgramId, FALSE, FALSE) >>
                   \o jupiterAccounts(jupiterInstruction.keys, vault),
         data |-> swapFeeToSolInstructionData(feeAmount, minAmountOut,
                                              jupiterInstruction.data)]

FALLBACK_BASE_FEE == 50000
COVER_FEE_INSTRUCTION_COST == 10000

\* baseFee = feeEstimate?.value || 50000.  feeEstimate is the set holding the
\* value getFeeForMessage returned, empty when it returned null
baseFee(feeEstimate) ==
    IF feeEstimate = {} \/ feeEstimate = {0}
    THEN FALLBACK_BASE_FEE
    ELSE CHOOSE v \in feeEstimate : TRUE

\* estimatedFee = baseFee + coverFeeInstructionCost
estimatedFee(feeEstimate) == baseFee(feeEstimate) + COVER_FEE_INSTRUCTION_COST

\* mutant: the relayer is flagged as a signer of the instruction
coverFeeInstructionRelayerSigns(vaultOwner, relayerPubkey, fee) ==
    [programId |-> PROGRAM_ID,
     keys |-> << AccountMeta(getVaultAddress(vaultOwner), FALSE, TRUE),
                 AccountMeta(vaultOwner, FALSE, FALSE),
                 AccountMeta(relayerPubkey, TRUE, TRUE),
                 AccountMeta(SystemProgramId, FALSE, FALSE) >>,
     data |-> coverFeeData(fee)]

\* the cover_transaction_fees instruction
coverFeeInstruction(vaultOwner, relayerPubkey, fee) ==
    [programId |-> PROGRAM_ID,
     keys |-> << AccountMeta(getVaultAddress(vaultOwner), FALSE, TRUE),
                 AccountMeta(vaultOwner, FALSE, FALSE),
                 AccountMeta(relayerPubkey, FALSE, TRUE),
                 AccountMeta(SystemProgramId, FALSE, FALSE) >>,
     data |-> coverFeeData(fee)]

\* a Transaction: its instructions, its checkpoint (a set: empty when unset),
\* its fee payer and the keys that have signed it
NoTransaction ==
    [instructions |-> <<>>, recentBlockhash |-> {}, feePayer |-> NULL, signatures |-> {}]

\* tempTransaction: only the swap instruction, to estimate fees
tempTransaction(swapIx, blockhash, relayerPubkey) ==
    [instructions |-> <<swapIx>>, recentBlockhash |-> {blockhash},
     feePayer |-> relayerPubkey, signatures |-> {}]

\* mutant: the swap instruction is added first
finalTransactionSwapFirst(coverFeeIx, swapIx, blockhash, relayerPubkey) ==
    [instructions |-> <<swapIx, coverFeeIx>>, recentBlockhash |-> {blockhash},
     feePayer |-> relayerPubkey, signatures |-> {}]

\* mutant: the final transaction is left without a blockhash
finalTransactionNoBlockhash(coverFeeIx, swapIx, blockhash, relayerPubkey) ==
    [instructions |-> <<coverFeeIx, swapIx>>, recentBlockhash |-> {},
     feePayer |-> relayerPubkey, signatures |-> {}]

\* the final transaction: cover fee instruction first, then the swap instruction
finalTransaction(coverFeeIx, swapIx, blockhash, relayerPubkey) ==
    [instructions |-> <<coverFeeIx, swapIx>>, recentBlockhash |-> {blockhash},
     feePayer |-> relayerPubkey, signatures |-> {}]

Range(seq) == {seq[i] : i \in DOMAIN seq}

\* the keys whose signature the compiled message requires: the fee payer and
\* every account some instruction flags isSigner
requiredSigners(transaction) ==
    {transaction.feePayer} \cup
    {acc.pubkey : acc \in {a \in UNION {Range(ix.keys) : ix \in Range(transaction.instructions)} :
                             a.isSigner}}

(***************************************************************************)
(* Deposit notifications and the dispatcher's tests (route.ts).            *)
(***************************************************************************)
\* transfer.tokenAmount as it stands in the JSON body: a number with an
\* integral part and a fractional part (in tenths)
Amount(whole, tenths) == [whole |-> whole, tenths |-> tenths]

TransferEvent(toTokenAccount, mint, tokenAmount) ==
    [toTokenAccount |-> toTokenAccount, mint |-> mint, tokenAmount |-> tokenAmount]

\* entries of tx.tokenTransfers: deposits of another token to a vault (one
\* large enough for a fee leg, one not), and entries that differ from such
\* a deposit in one respect
TransferEvents ==
    UNION {{TransferEvent(getVaultAddress(o), OtherMint, Amount(2000, 0)),
            TransferEvent(getVaultAddress(o), OtherMint, Amount(250, 0)),
            TransferEvent(getVaultAddress(o), OtherMint, Amount(0, 0)),
            TransferEvent(getVaultAddress(o), OtherMint, Amount(1, 5)),
            TransferEvent(getVaultAddress(o), CBBTC_MINT, Amount(2000, 0))} : o \in Owners}
    \cup {TransferEvent(Stranger, OtherMint, Amount(2000, 0)),
          TransferEvent(NotAKey, OtherMint, Amount(2000, 0))}

NoEvent == [toTokenAccount |-> NULL, mint |-> NULL, tokenAmount |-> [whole |-> 0, tenths |-> 0]]

NativeTransfer(toUserAccount, amount) == [toUserAccount |-> toUserAccount, amount |-> amount]

\* entries of tx.nativeTransfers: lamports sent to a vault, an entry without
\* lamports, and lamports sent to an account that is no vault
NativeTransfers ==
    UNION {{NativeTransfer(getVaultAddress(o), 5000),
            NativeTransfer(getVaultAddress(o), 0)} : o \in Owners}
    \cup {NativeTransfer(NotAKey, 5000)}

NoNativeTransfer == [toUserAccount |-> NULL, amount |-> 0]

\* new PublicKey(address) throws on a string that is no base58 key
isPublicKey(address) == address # NotAKey

\* isVaultAddress: true for every string that parses as a public key
isVaultAddress(address) == isPublicKey(address)

\* getVaultOwnerFromAddress: returns null
getVaultOwnerFromAddress(vaultAddress) == NULL

\* the owner identity the vault account of that address holds, null when the
\* address is no vault (the external account-state lookup of the dispatcher)
resolveVaultOwner(vaultAddress) ==
    IF \E o \in Owners : getVaultAddress(o) = vaultAddress
    THEN CHOOSE o \in Owners : getVaultAddress(o) = vaultAddress
    ELSE NULL

\* BigInt(x) throws a RangeError on a number that is not an integer
BigIntThrows(tokenAmount) == tokenAmount.tenths # 0

BigInt(tokenAmount) == tokenAmount.whole

\* totalFee = (amount * BigInt(100)) / BigInt(10000)
totalFee(amount) == (amount * 100) \div 10000

\* mutant: 0.4% of the amount in one division
feeToVaultOneDivision(amount) == (amount * 40) \div 10000

\* feeToVault = (totalFee * BigInt(4)) / BigInt(10)
feeToVault(amount) == (totalFee(amount) * 4) \div 10

MIN_REQUIRED_BALANCE == 100000

\* mutant: a balance equal to the minimum is refused too
submitGuardRefusesAtMinimum(vaultBalance) == vaultBalance <= MIN_REQUIRED_BALANCE

\* submitSwapWithVaultFees refuses when vaultBalance < minRequiredBalance
submitGuardRefuses(vaultBalance) == vaultBalance < MIN_REQUIRED_BALANCE

\* mutant: buildSwapTransaction does not look at the balance
buildGuardRefusesNever(vaultBalance) == FALSE

\* buildSwapTransaction refuses when vaultBalance < minRequiredBalance
buildGuardRefuses(vaultBalance) == vaultBalance < MIN_REQUIRED_BALANCE

(***************************************************************************)
(* Answers of the environment.                                             *)
(***************************************************************************)
\* connection.getBalance(vault)
VaultBalances == {MIN_REQUIRED_BALANCE - 1, MIN_REQUIRED_BALANCE}

\* getAccount(connection, vaultTokenAccount): no such account, or its amount
\* relative to the requested one
TokenAccountAnswers == {"missing", "less", "enough"}

\* the query of the quote request of buildSwapTransaction (output cbBTC) and
\* of buildSwapFeeToSolTransaction (output wrapped SOL)
quoteRequest(leg, inputMint, amount) ==
    [inputMint |-> inputMint,
     outputMint |-> IF leg = "swap" THEN CBBTC_MINT ELSE WNATIVE_MINT,
     amount |-> amount]

NoQuoteRequest == [inputMint |-> NULL, outputMint |-> NULL, amount |-> 0]

\* the quote endpoint: no answer / not ok, or a quote; outAmount is a set,
\* empty when the answer carries none
QuoteAnswers == {[ok |-> FALSE, outAmount |-> {}], [ok |-> TRUE, outAmount |-> {}],
                 [ok |-> TRUE, outAmount |-> {7}]}

ComputeBudgetIx ==
    [programId |-> <<"ComputeBudget111111111111111111111111111111">>,
     keys |-> <<>>, data |-> <<2>>]

Pool == <<"pool">>

\* the instructions of the transaction the swap endpoint answers with
RouteInstructionLists(vault) ==
    { <<ComputeBudgetIx>>,
      <<ComputeBudgetIx,
        [programId |-> JUPITER_PROGRAM_ID,
         keys |-> <<AccountMeta(Pool, FALSE, TRUE), AccountMeta(vault, FALSE, FALSE)>>,
         data |-> <<229>>]>> }

\* connection.getFeeForMessage(message): the call fails, or answers null or
\* a value
FeeAnswers == {[ok |-> FALSE, value |-> {}], [ok |-> TRUE, value |-> {}],
               [ok |-> TRUE, value |-> {0}], [ok |-> TRUE, value |-> {5000}],
               [ok |-> TRUE, value |-> {95000}]}

(***************************************************************************)
(* State.                                                                  *)
(***************************************************************************)
VARIABLES
    req,              \* the state of each webhook request (POST handler)
    relayerInstance,  \* the singleton of lib/relayer: is it constructed
    slot,             \* the chain: its latest blockhash is that of this slot
    delivered,        \* transfer events delivered so far
    ownerLookup,      \* which owner lookup the dispatcher runs with
    calc,             \* operands and results of the arithmetic and encoder checks
    webhook,          \* the Helius webhook's configuration, as the API holds it
    hookCall          \* the state of each addVaultToWebhook / removeVaultFromWebhook call

vars == <<req, relayerInstance, slot, delivered, ownerLookup, calc, webhook, hookCall>>

NoCalc == [op |-> "none"]

\* concurrent calls of the webhook management functions
MaxHookCalls == 2

HookCalls == 1..MaxHookCalls

\* accountAddresses of the webhook; before is the list the webhook was
\* created with
NoWebhook == [accountAddresses |-> <<>>, before |-> <<>>]

IdleHookCall ==
    [pc |-> "idle",
     op |-> "none",                 \* "add" or "remove"
     vaultAddress |-> "",
     accountAddresses |-> <<>>,     \* webhook.accountAddresses as the GET returned it
     included |-> FALSE,            \* webhook.accountAddresses.includes(vaultAddress)
     updatedAddresses |-> <<>>,
     updates |-> 0]                 \* PUT requests that were answered ok

NoHookCalls == [c \in HookCalls |-> IdleHookCall]

\* the owner lookup of the dispatcher: the placeholder of route.ts, or the
\* lookup against the vault account
lookupVaultOwner(vaultAddress) ==
    IF ownerLookup = "resolved"
    THEN resolveVaultOwner(vaultAddress)
    ELSE getVaultOwnerFromAddress(vaultAddress)

NoInstruction == [programId |-> NULL, keys |-> <<>>, data |-> <<>>]

\* what the checks of buildSwapTransaction on the vault were answered: the
\* token account ("" while getAccount has not answered) and the SOL balance
\* (empty while getBalance has not answered or was not called)
NoPrecondition == [account |-> "", balance |-> {}]

IdleRequest ==
    [pc |-> "idle",
     isArray |-> FALSE,             \* Array.isArray(body) of the request's body
     transfer |-> NoEvent,          \* the entry of tokenTransfers the loop read last
     native |-> NoNativeTransfer,   \* the entry of nativeTransfers the loop read last
     invoked |-> FALSE,             \* was buildSwapTransaction called for it
     vaultOwner |-> NULL,
     leg |-> "none",                \* "swap": swap to cbBTC, "fee": fee to SOL
     amount |-> 0,                  \* amount / feeAmount of the build call
     minAmountOut |-> 0,
     precondition |-> NoPrecondition, \* the answers to the checks of buildSwapTransaction
     quoted |-> NoQuoteRequest,     \* the quote request of the running leg
     swapTransaction |-> <<>>,      \* the instructions of swapData.swapTransaction of
                                    \* the running or the failed build call
     swapIx |-> NoInstruction,      \* swapInstruction / swapFeeToSolInstruction
     probe |-> NoTransaction,       \* tempTransaction, whose message getFeeForMessage got
     feeEstimate |-> {},            \* what getFeeForMessage answered
     transaction |-> NoTransaction, \* the transaction built, then submitted
     vaultBalance |-> {},           \* what getBalance answered to the running or the
                                    \* refused submitSwapWithVaultFees
     blockhash |-> {},              \* what getLatestBlockhash answered to the running
                                    \* submitTransaction, or to the one whose
                                    \* confirmation expired
     broadcasts |-> 0,              \* sendRawTransaction calls of the running
                                    \* submitTransaction, or of the one they failed
     err |-> FALSE,                 \* value.err of the last confirmTransaction result
     swapSignature |-> FALSE,       \* "Swap transaction submitted" logged for the entry
     feeSignature |-> FALSE,        \* "Fee-to-SOL swap transaction submitted" logged for it
     failure |-> FALSE,             \* "Swap failed" logged for it
     status |-> 0]                  \* status of the response, 0 while there is none


(***************************************************************************)
(* The dispatcher's continuations (route.ts, processHeliusTransaction).    *)
(***************************************************************************)
\* the locals of one pass through the try block, dropped when it is left
ClearLocals(q) ==
    [q EXCEPT !.vaultOwner = NULL, !.leg = "none", !.amount = 0, !.minAmountOut = 0,
              !.quoted = NoQuoteRequest, !.swapTransaction = <<>>,
              !.swapIx = NoInstruction, !.probe = NoTransaction, !.feeEstimate = {},
              !.transaction = NoTransaction, !.blockhash = {}, !.vaultBalance = {},
              !.broadcasts = 0]

\* the for loop goes on to the next entry of tokenTransfers
NextTransfer(q) == [ClearLocals(q) EXCEPT !.pc = "loop"]

\* mutant: a failed fee leg is started again
CatchSwapFailedRetriesFeeLeg(q) ==
    IF q.leg = "fee"
    THEN [q EXCEPT !.failure = TRUE, !.pc = "b_quote", !.minAmountOut = 0,
                   !.swapTransaction = <<>>, !.swapIx = NoInstruction,
                   !.feeEstimate = {}, !.transaction = NoTransaction,
                   !.blockhash = {}, !.vaultBalance = {}, !.broadcasts = 0]
    ELSE [q EXCEPT !.failure = TRUE, !.pc = "loop", !.vaultOwner = NULL, !.leg = "none",
                   !.amount = 0, !.minAmountOut = 0, !.quoted = NoQuoteRequest,
                   !.swapTransaction = <<>>, !.swapIx = NoInstruction,
                   !.feeEstimate = {}, !.transaction = NoTransaction,
                   !.blockhash = {}, !.vaultBalance = {}, !.broadcasts = 0]

\* mutant: a transaction whose submission failed is submitted again
CatchSwapFailedResubmits(q) ==
    IF q.pc \in {"s_send", "s_confirm"}
    THEN [q EXCEPT !.failure = TRUE, !.pc = "s_hash", !.blockhash = {},
                   !.broadcasts = 0, !.transaction.signatures = {}]
    ELSE [q EXCEPT !.failure = TRUE, !.pc = "loop", !.vaultOwner = NULL, !.leg = "none",
                   !.amount = 0, !.minAmountOut = 0, !.quoted = NoQuoteRequest,
                   !.swapTransaction = <<>>, !.swapIx = NoInstruction,
                   !.probe = NoTransaction,
                   !.feeEstimate = {}, !.transaction = NoTransaction,
                   !.blockhash = {}, !.vaultBalance = {}, !.broadcasts = 0]

\* catch (error): console.error("Swap failed:", error), do not throw
CatchSwapFailed(q) == NextTransfer([q EXCEPT !.failure = TRUE])

\* after buildSwapTransaction / buildSwapFeeToSolTransaction returned:
\* submitSwapWithVaultFees is called and awaits connection.getBalance(vault)
AfterBuild(q, transaction, feeEstimate) ==
    [q EXCEPT !.pc = "s_guard", !.transaction = transaction, !.feeEstimate = feeEstimate,
              !.swapTransaction = <<>>,
              !.swapIx = NoInstruction, !.vaultBalance = {}]

\* mutant: the fee-to-SOL leg is started when totalFee > 0
AfterSubmitOnTotalFee(q) ==
    IF q.leg = "swap"
    THEN IF totalFee(q.amount) > 0
         THEN [q EXCEPT !.swapSignature = TRUE, !.leg = "fee", !.pc = "b_quote",
                        !.amount = feeToVault(q.amount), !.minAmountOut = 0,
                        !.quoted = quoteRequest("fee", q.transfer.mint,
                                                feeToVault(q.amount)),
                        !.feeEstimate = {}, !.transaction = NoTransaction,
                        !.blockhash = {}, !.vaultBalance = {}, !.broadcasts = 0]
         ELSE [q EXCEPT !.swapSignature = TRUE, !.pc = "loop", !.vaultOwner = NULL,
                        !.leg = "none", !.amount = 0, !.minAmountOut = 0,
                        !.quoted = NoQuoteRequest, !.feeEstimate = {},
                        !.transaction = NoTransaction, !.blockhash = {},
                        !.vaultBalance = {}, !.broadcasts = 0]
    ELSE [q EXCEPT !.feeSignature = TRUE, !.pc = "loop", !.vaultOwner = NULL,
                   !.leg = "none", !.amount = 0, !.minAmountOut = 0,
                   !.quoted = NoQuoteRequest, !.feeEstimate = {},
                   !.transaction = NoTransaction, !.blockhash = {},
                   !.vaultBalance = {}, !.broadcasts = 0]

\* after submitSwapWithVaultFees returned a signature: the swap leg computes
\* the fee and starts the fee-to-SOL leg when feeToVault > 0
AfterSubmit(q) ==
    IF q.leg = "swap"
    THEN IF feeToVault(q.amount) > 0
         THEN [q EXCEPT !.swapSignature = TRUE, !.leg = "fee", !.pc = "b_quote",
                        !.amount = feeToVault(q.amount), !.minAmountOut = 0,
                        !.quoted = quoteRequest("fee", q.transfer.mint,
                                                feeToVault(q.amount)),
                        !.probe = NoTransaction,
                        !.feeEstimate = {}, !.transaction = NoTransaction,
                        !.blockhash = {}, !.vaultBalance = {}, !.broadcasts = 0]
         ELSE NextTransfer([q EXCEPT !.swapSignature = TRUE])
    ELSE NextTransfer([q EXCEPT !.feeSignature = TRUE])

(***************************************************************************)
(* POST and processHeliusTransaction.                                      *)
(***************************************************************************)
\* POST: a body that is one transaction object of type TRANSFER or SWAP is
\* handed to processHeliusTransaction; a body that is an array has no type
\* and no webhookId or transaction either, and is answered with 400
Post(r) ==
    /\ req[r].pc = "idle"
    /\ \E isArray \in BOOLEAN :
          req' = [req EXCEPT ![r] =
                    IF isArray
                    THEN [@ EXCEPT !.pc = "done", !.isArray = TRUE, !.status = 400]
                    ELSE [@ EXCEPT !.pc = "loop"]]
    /\ UNCHANGED <<relayerInstance, slot, delivered, ownerLookup, calc, webhook, hookCall>>

\* one pass of the loop over tokenTransfers, up to the call of
\* buildSwapTransaction.  The entries of tokenTransfers are read one by one:
\* the entry is drawn when the loop reaches it
DispatchTransfer(r) ==
    /\ req[r].pc = "loop"
    /\ delivered < MaxTransfers
    /\ \E transfer \in TransferEvents :
          LET toAddress == transfer.toTokenAccount
              vaultOwner == IF isVaultAddress(toAddress)
                            THEN lookupVaultOwner(toAddress)
                            ELSE NULL
              q == [req[r] EXCEPT !.transfer = transfer, !.invoked = FALSE,
                                  !.vaultBalance = {}, !.swapSignature = FALSE,
                                  !.feeSignature = FALSE, !.failure = FALSE,
                                  !.swapTransaction = <<>>, !.broadcasts = 0,
                                  !.err = FALSE, !.blockhash = {},
                                  !.precondition = NoPrecondition]
          IN  req' = [req EXCEPT ![r] =
                 IF vaultOwner = NULL
                 THEN NextTransfer(q)
                 ELSE IF BigIntThrows(transfer.tokenAmount)
                 THEN [IdleRequest EXCEPT !.pc = "done", !.status = 500, !.transfer = transfer]
                 ELSE IF transfer.mint # CBBTC_MINT /\ BigInt(transfer.tokenAmount) > 0
                 THEN [q EXCEPT !.pc = "b_pre", !.invoked = TRUE, !.leg = "swap",
                                !.vaultOwner = vaultOwner,
                                !.amount = BigInt(transfer.tokenAmount)]
                 ELSE NextTransfer(q)]
    /\ delivered' = delivered + 1
    /\ UNCHANGED <<relayerInstance, slot, ownerLookup, calc, webhook, hookCall>>

\* the loop over tokenTransfers is over: the loop over nativeTransfers starts
EndTokenTransfers(r) ==
    /\ req[r].pc = "loop"
    /\ req' = [req EXCEPT ![r] = [IdleRequest EXCEPT !.pc = "native"]]
    /\ UNCHANGED <<relayerInstance, slot, delivered, ownerLookup, calc, webhook, hookCall>>

\* one pass of the loop over nativeTransfers: a transfer to a vault address
\* is logged ("TODO: Wrap SOL to wSOL and swap"), nothing is called
DispatchNative(r) ==
    /\ req[r].pc = "native"
    /\ delivered < MaxTransfers
    /\ \E transfer \in NativeTransfers :
          req' = [req EXCEPT ![r] = [@ EXCEPT !.native = transfer, !.invoked = FALSE]]
    /\ delivered' = delivered + 1
    /\ UNCHANGED <<relayerInstance, slot, ownerLookup, calc, webhook, hookCall>>

\* the loop over nativeTransfers is over: POST answers
\* "Processed Helius transaction webhook"
FinishBatch(r) ==
    /\ req[r].pc = "native"
    /\ req' = [req EXCEPT ![r] = [IdleRequest EXCEPT !.pc = "done", !.status = 200]]
    /\ UNCHANGED <<relayerInstance, slot, delivered, ownerLookup, calc, webhook, hookCall>>

(***************************************************************************)
(* buildSwapTransaction and buildSwapFeeToSolTransaction (lib/swap).       *)
(***************************************************************************)
\* buildSwapTransaction: the vault's token account and SOL balance are checked
BuildPreconditions(r) ==
    /\ req[r].pc = "b_pre"
    /\ \E account \in TokenAccountAnswers, vaultBalance \in VaultBalances :
          req' = [req EXCEPT ![r] =
                    IF account # "enough"
                    THEN [CatchSwapFailed(@) EXCEPT
                             !.precondition = [account |-> account, balance |-> {}]]
                    ELSE IF buildGuardRefuses(vaultBalance)
                    THEN [CatchSwapFailed(@) EXCEPT
                             !.precondition = [account |-> account,
                                               balance |-> {vaultBalance}]]
                    ELSE [@ EXCEPT !.pc = "b_quote",
                                   !.precondition = [account |-> account,
                                                     balance |-> {vaultBalance}],
                                   !.quoted = quoteRequest("swap", req[r].transfer.mint,
                                                           req[r].amount)]]
    /\ UNCHANGED <<relayerInstance, slot, delivered, ownerLookup, calc, webhook, hookCall>>

\* Step 1 of both build functions: the quote
BuildQuote(r) ==
    /\ req[r].pc = "b_quote"
    /\ \E quote \in QuoteAnswers :
          req' = [req EXCEPT ![r] =
                    IF ~quote.ok
                    THEN CatchSwapFailed(@)
                    ELSE [@ EXCEPT !.pc = "b_route",
                                   !.minAmountOut =
                                       IF quote.outAmount = {} THEN 0
                                       ELSE CHOOSE v \in quote.outAmount : TRUE]]
    /\ UNCHANGED <<relayerInstance, slot, delivered, ownerLookup, calc, webhook, hookCall>>

\* Steps 2 to 6 of both build functions: the swap transaction of the
\* aggregator, its Jupiter instruction, the program's swap instruction; then
\* getRelayer and the call of getLatestBlockhash
BuildRoute(r) ==
    /\ req[r].pc = "b_route"
    /\ \E ok \in BOOLEAN,
          instructions \in RouteInstructionLists(getVaultAddress(req[r].vaultOwner)) :
          LET q == req[r]
              i == findJupiterInstruction(instructions)
              failed == \/ ~ok
                        \/ i = 0
                        \/ swapInstructionDataThrows(q.amount, q.minAmountOut,
                                                     instructions[i].data)
          IN  /\ req' = [req EXCEPT ![r] =
                    IF ~ok
                    THEN CatchSwapFailed(q)
                    ELSE IF failed
                    THEN [CatchSwapFailed(q) EXCEPT !.swapTransaction = instructions]
                    ELSE [q EXCEPT !.pc = "b_probe",
                                   !.swapTransaction = instructions,
                                   !.swapIx =
                                      IF q.leg = "swap"
                                      THEN swapInstruction(q.vaultOwner, q.transfer.mint,
                                               q.amount, q.minAmountOut, instructions[i])
                                      ELSE swapFeeToSolInstruction(q.vaultOwner,
                                               q.transfer.mint, q.amount, q.minAmountOut,
                                               instructions[i])]]
              /\ relayerInstance' = (relayerInstance \/ ~failed)
    /\ UNCHANGED <<slot, delivered, ownerLookup, calc, webhook, hookCall>>

\* mutant: the probe transaction is returned
buildTransactionProbe(vaultOwner, swapIx, blockhash, relayerPubkey, feeEstimate) ==
    tempTransaction(swapIx, blockhash, relayerPubkey)

\* the fee probe and the final assembly of both build functions
buildTransaction(vaultOwner, swapIx, blockhash, relayerPubkey, feeEstimate) ==
    finalTransaction(
        coverFeeInstruction(vaultOwner, relayerPubkey, estimatedFee(feeEstimate)),
        swapIx, blockhash, relayerPubkey)

\* getLatestBlockhash and getFeeForMessage answer; the transaction is returned
BuildProbe(r) ==
    /\ req[r].pc = "b_probe"
    /\ \E answer \in FeeAnswers :
          req' = [req EXCEPT ![r] =
                    IF ~answer.ok
                    THEN CatchSwapFailed(@)
                    ELSE [AfterBuild(@, buildTransaction(@.vaultOwner, @.swapIx, slot,
                                                         RelayerKey, answer.value),
                                     answer.value)
                             EXCEPT !.probe = tempTransaction(req[r].swapIx, slot,
                                                              RelayerKey)]]
    /\ UNCHANGED <<relayerInstance, slot, delivered, ownerLookup, calc, webhook, hookCall>>

(***************************************************************************)
(* submitSwapWithVaultFees (lib/swap), submitViaRelayer and                *)
(* MinimalRelayer.submitTransaction (lib/relayer).                         *)
(***************************************************************************)
\* getBalance answers: below the minimum the call throws; otherwise
\* submitViaRelayer calls submitTransaction, which calls getLatestBlockhash
SubmitGuard(r) ==
    /\ req[r].pc = "s_guard"
    /\ \E vaultBalance \in VaultBalances :
          /\ req' = [req EXCEPT ![r] =
                        IF submitGuardRefuses(vaultBalance)
                        THEN [CatchSwapFailed(@) EXCEPT !.vaultBalance = {vaultBalance}]
                        ELSE [@ EXCEPT !.pc = "s_hash", !.vaultBalance = {vaultBalance},
                                       !.feeEstimate = {}]]
          /\ relayerInstance' = (relayerInstance \/ ~submitGuardRefuses(vaultBalance))
    /\ UNCHANGED <<slot, delivered, ownerLookup, calc, webhook, hookCall>>

\* sendRawTransaction(..., { skipPreflight: false, maxRetries: 3 }): how often
\* the RPC node sends the transaction on to the leader
maxRetries == 3

\* mutant: the fetched blockhash is attached whether or not one is set
signedTransactionFreshBlockhash(transaction, blockhash, relayerPubkey) ==
    [transaction EXCEPT
        !.recentBlockhash = {blockhash},
        !.feePayer = relayerPubkey,
        !.signatures = {relayerPubkey}]

\* submitTransaction up to transaction.sign(this.relayerKeypair)
signedTransaction(transaction, blockhash, relayerPubkey) ==
    [transaction EXCEPT
        !.recentBlockhash = IF @ = {} THEN {blockhash} ELSE @,
        !.feePayer = relayerPubkey,
        !.signatures = {relayerPubkey}]

\* getLatestBlockhash answers; the transaction is signed and serialized and
\* sendRawTransaction is called.  transaction.serialize() is the library's:
\* on a transaction that lacks a required signature it may throw
SubmitSignSend(r) ==
    /\ req[r].pc = "s_hash"
    /\ \E ok \in BOOLEAN, serializeThrows \in BOOLEAN :
          LET signed == signedTransaction(req[r].transaction, slot, RelayerKey)
              complete == requiredSigners(signed) \subseteq signed.signatures
          IN  req' = [req EXCEPT ![r] =
                        IF ~ok \/ (serializeThrows /\ ~complete)
                        THEN CatchSwapFailed(@)
                        ELSE [@ EXCEPT !.pc = "s_send", !.transaction = signed,
                                       !.blockhash = {slot}, !.broadcasts = 1]]
    /\ UNCHANGED <<relayerInstance, slot, delivered, ownerLookup, calc, webhook, hookCall>>

\* sendRawTransaction answers with a signature or throws;
\* confirmTransaction is called
SendReturns(r) ==
    /\ req[r].pc = "s_send"
    /\ \E ok \in BOOLEAN :
          req' = [req EXCEPT ![r] =
                    IF ~ok
                    THEN [CatchSwapFailed(@) EXCEPT !.broadcasts = req[r].broadcasts]
                    ELSE [@ EXCEPT !.pc = "s_confirm"]]
    /\ UNCHANGED <<relayerInstance, slot, delivered, ownerLookup, calc, webhook, hookCall>>

\* confirmTransaction answers (its result is not read) or throws; the
\* signature is returned to processHeliusTransaction
ConfirmReturns(r) ==
    /\ req[r].pc = "s_confirm"
    /\ \E answer \in {"confirmed", "err", "timeout"} :
          req' = [req EXCEPT ![r] =
                    IF answer = "timeout"
                    THEN [CatchSwapFailed(@) EXCEPT !.blockhash = req[r].blockhash]
                    ELSE [AfterSubmit(@) EXCEPT !.err = (answer = "err")]]
    /\ UNCHANGED <<relayerInstance, slot, delivered, ownerLookup, calc, webhook, hookCall>>

\* the chain produces a block: getLatestBlockhash answers a new blockhash
NewBlock ==
    /\ slot < MaxSlot
    /\ slot' = slot + 1
    /\ UNCHANGED <<req, relayerInstance, delivered, ownerLookup, calc, webhook, hookCall>>

(***************************************************************************)
(* The fee arithmetic and the argument encoding, applied to operands drawn *)
(* from their ranges.                                                      *)
(***************************************************************************)
\* deposit amounts: every amount up to MaxAmount and the amounts of the examples
FeeAmounts == (0..MaxAmount) \cup {1000000, 2000000}

\* lines 188 and 189 of route.ts applied to an amount
ComputeFee ==
    /\ calc.op = "fee"
    /\ ~calc.done
    /\ calc' = [calc EXCEPT !.done = TRUE,
                            !.totalFee = totalFee(calc.amountIn),
                            !.feeToVault = feeToVault(calc.amountIn)]
    /\ UNCHANGED <<req, relayerInstance, slot, delivered, ownerLookup, webhook, hookCall>>

InitFee ==
    /\ req = [r \in Requests |-> IdleRequest]
    /\ relayerInstance = FALSE
    /\ slot = 0
    /\ delivered = 0
    /\ ownerLookup = "resolved"
    /\ webhook = NoWebhook
    /\ hookCall = NoHookCalls
    /\ calc \in [op : {"fee"}, done : {FALSE}, amountIn : FeeAmounts,
                 totalFee : {0}, feeToVault : {0}]

SpecFee == InitFee /\ [][ComputeFee]_vars

\* u64 operands: the byte boundaries below 2^31
EncodedAmounts == {0, 1, 255, 256, 65535, 65536, 16777216, 2147483647}

LongRouteLen == 65535

\* a route payload of n bytes
RouteBytes(n) == [i \in 1..n |-> (i * 7) % 256]

RoutePayloads == {RouteBytes(n) : n \in (0..MaxRouteLen) \cup {LongRouteLen}}

\* lines 309 to 326 and 515 to 529 of lib/swap applied to the same
\* (amount, minAmountOut, jupiterSwapData)
EncodeSwap ==
    /\ calc.op = "encode"
    /\ ~calc.done
    /\ ~swapInstructionDataThrows(calc.amountIn, calc.minAmountOut, calc.routeBytes)
    /\ calc' = [calc EXCEPT !.done = TRUE,
                            !.data = swapInstructionData(SWAP_TO_CBBTC_DISCRIMINATOR,
                                         calc.amountIn, calc.minAmountOut, calc.routeBytes),
                            !.feeData = swapFeeToSolInstructionData(
                                         calc.amountIn, calc.minAmountOut, calc.routeBytes)]
    /\ UNCHANGED <<req, relayerInstance, slot, delivered, ownerLookup, webhook, hookCall>>

InitEncode ==
    /\ req = [r \in Requests |-> IdleRequest]
    /\ relayerInstance = FALSE
    /\ slot = 0
    /\ delivered = 0
    /\ ownerLookup = "resolved"
    /\ webhook = NoWebhook
    /\ hookCall = NoHookCalls
    /\ calc \in [op : {"encode"}, done : {FALSE}, amountIn : EncodedAmounts,
                 minAmountOut : EncodedAmounts, routeBytes : RoutePayloads,
                 data : {<<>>}, feeData : {<<>>}]

SpecEncode == InitEncode /\ [][EncodeSwap]_vars

\* fee amounts: every amount up to MaxAmount, the two amounts the fallback
\* and a probe value give, and the byte boundaries below 2^31
CoverFeeAmounts == (0..MaxAmount) \cup {15000, 60000} \cup EncodedAmounts

\* lines 375 to 378 (and 569 to 572) of lib/swap applied to a fee amount
EncodeCoverFee ==
    /\ calc.op = "cover"
    /\ ~calc.done
    /\ ~toArrayLikeThrows(calc.feeAmount, 8)
    /\ calc' = [calc EXCEPT !.done = TRUE, !.data = coverFeeData(calc.feeAmount)]
    /\ UNCHANGED <<req, relayerInstance, slot, delivered, ownerLookup, webhook, hookCall>>

InitCoverFee ==
    /\ req = [r \in Requests |-> IdleRequest]
    /\ relayerInstance = FALSE
    /\ slot = 0
    /\ delivered = 0
    /\ ownerLookup = "resolved"
    /\ webhook = NoWebhook
    /\ hookCall = NoHookCalls
    /\ calc \in [op : {"cover"}, done : {FALSE}, feeAmount : CoverFeeAmounts,
                 data : {<<>>}]

SpecCoverFee == InitCoverFee /\ [][EncodeCoverFee]_vars

MaxKeys == 3

\* the owner whose vault the account lists are extracted for
SomeOwner == CHOOSE o \in Owners : TRUE

\* the vault the account lists are extracted for
SomeVault == getVaultAddress(SomeOwner)

\* jupiterInstruction.keys: every list of up to MaxKeys accounts, each the
\* vault or a pool account, with any flags (a list may name an account twice)
JupiterKeyLists ==
    UNION {[1..n -> [pubkey : {SomeVault, Pool}, isSigner : BOOLEAN,
                     isWritable : BOOLEAN]] : n \in 0..MaxKeys}

\* lines 284 to 346 (and 495 to 545) of lib/swap applied to a list of
\* accounts: the extraction, then the key lists of the two swap instructions
ExtractAccounts ==
    /\ calc.op = "accounts"
    /\ ~calc.done
    /\ calc' = [calc EXCEPT !.done = TRUE,
                            !.jupiterAccounts = jupiterAccounts(calc.keys, SomeVault),
                            !.swapKeys =
                                swapInstruction(SomeOwner, OtherMint, 1, 1,
                                    [programId |-> JUPITER_PROGRAM_ID, keys |-> calc.keys,
                                     data |-> <<229>>]).keys,
                            !.feeKeys =
                                swapFeeToSolInstruction(SomeOwner, OtherMint, 1, 1,
                                    [programId |-> JUPITER_PROGRAM_ID, keys |-> calc.keys,
                                     data |-> <<229>>]).keys]
    /\ UNCHANGED <<req, relayerInstance, slot, delivered, ownerLookup, webhook, hookCall>>

InitAccounts ==
    /\ req = [r \in Requests |-> IdleRequest]
    /\ relayerInstance = FALSE
    /\ slot = 0
    /\ delivered = 0
    /\ ownerLookup = "resolved"
    /\ webhook = NoWebhook
    /\ hookCall = NoHookCalls
    /\ calc \in [op : {"accounts"}, done : {FALSE}, keys : JupiterKeyLists,
                 jupiterAccounts : {<<>>}, swapKeys : {<<>>}, feeKeys : {<<>>}]

SpecAccounts == InitAccounts /\ [][ExtractAccounts]_vars

MaxOwnerKeys == 8
MaxCalls == 2

KeyNames == <<"owner1", "owner2", "owner3", "owner4", "owner5",
              "owner6", "owner7", "owner8", "owner9", "owner10">>

\* owner identities (wallet public keys)
OwnerKeys == {<<KeyNames[i]>> : i \in 1..MaxOwnerKeys}

\* one more call of getVaultAddress for each of two owners and of
\* initializeVaultClient (up to its derivation, with a connected wallet) for
\* the first; an address is the tuple of the inputs of
\* findProgramAddressSync, which is a function of them
DeriveVault ==
    /\ calc.op = "derive"
    /\ Len(calc.server) < MaxCalls
    /\ calc' = [calc EXCEPT
                  !.server = Append(@, getVaultAddress(calc.owner)),
                  !.client = Append(@, initializeVaultClientAddress(calc.owner)),
                  !.other = Append(@, getVaultAddress(calc.otherOwner))]
    /\ UNCHANGED <<req, relayerInstance, slot, delivered, ownerLookup, webhook, hookCall>>

InitDerive ==
    /\ req = [r \in Requests |-> IdleRequest]
    /\ relayerInstance = FALSE
    /\ slot = 0
    /\ delivered = 0
    /\ ownerLookup = "resolved"
    /\ webhook = NoWebhook
    /\ hookCall = NoHookCalls
    /\ calc \in [op : {"derive"}, owner : OwnerKeys, otherOwner : OwnerKeys,
                 server : {<<>>}, client : {<<>>}, other : {<<>>}]

SpecDerive == InitDerive /\ [][DeriveVault]_vars

(***************************************************************************)
(* The encoder on operands of any size.  A BN is held as its bytes, least  *)
(* significant first, without leading zero bytes: byteLength is their      *)
(* number, and 2^64 is eight zero bytes followed by a one.                 *)
(***************************************************************************)
\* mutant: toArrayLike does not check the length
toArrayLikeWideNeverThrows(bn, len) == FALSE

\* BN.toArrayLike(Buffer, "le", len) asserts byteLength <= len and throws otherwise
toArrayLikeWideThrows(bn, len) == Len(bn) > len

\* BN.toArrayLike(Buffer, "le", len): the bytes, zero-padded to len bytes
toArrayLikeWide(bn, len) == SubSeq(bn \o [i \in 1..len |-> 0], 1, len)

\* lines 309 to 326 (and 516 to 529) of lib/swap: the arguments throw, or
\* instructionData
swapInstructionDataWide(discriminator, amountIn, minAmountOut, jupiterSwapData) ==
    IF \/ toArrayLikeWideThrows(amountIn, 8)
       \/ toArrayLikeWideThrows(minAmountOut, 8)
       \/ writeUInt32LEThrows(Len(jupiterSwapData))
    THEN <<>>
    ELSE discriminator \o toArrayLikeWide(amountIn, 8) \o toArrayLikeWide(minAmountOut, 8)
             \o writeUInt32LE(Len(jupiterSwapData)) \o jupiterSwapData

\* lines 375 to 378 of lib/swap: feeAmountBN.toArrayLike throws, or coverFeeData
coverFeeDataWide(feeAmount) ==
    IF toArrayLikeWideThrows(feeAmount, 8)
    THEN <<>>
    ELSE COVER_FEE_DISCRIMINATOR \o toArrayLikeWide(feeAmount, 8)

\* operands around 2^64: 0, 1, 255, 256, 2^64 - 1, 2^64, 2^64 + 1, 2^72 - 1
WideAmounts ==
    { <<>>, <<1>>, <<255>>, <<0, 1>>,
      <<255, 255, 255, 255, 255, 255, 255, 255>>,
      <<0, 0, 0, 0, 0, 0, 0, 0, 1>>,
      <<1, 0, 0, 0, 0, 0, 0, 0, 1>>,
      <<255, 255, 255, 255, 255, 255, 255, 255, 255>> }

\* the three encodings applied to operands of any size; data is empty when
\* the encoder threw
EncodeWide ==
    /\ calc.op = "wide"
    /\ ~calc.done
    /\ calc' = [calc EXCEPT
                  !.done = TRUE,
                  !.data = swapInstructionDataWide(SWAP_TO_CBBTC_DISCRIMINATOR,
                               calc.amountIn, calc.minAmountOut, calc.routeBytes),
                  !.feeData = swapInstructionDataWide(SWAP_FEE_TO_SOL_DISCRIMINATOR,
                               calc.amountIn, calc.minAmountOut, calc.routeBytes),
                  !.coverData = coverFeeDataWide(calc.amountIn)]
    /\ UNCHANGED <<req, relayerInstance, slot, delivered, ownerLookup, webhook, hookCall>>

InitWide ==
    /\ req = [r \in Requests |-> IdleRequest]
    /\ relayerInstance = FALSE
    /\ slot = 0
    /\ delivered = 0
    /\ ownerLookup = "resolved"
    /\ webhook = NoWebhook
    /\ hookCall = NoHookCalls
    /\ calc \in [op : {"wide"}, done : {FALSE}, amountIn : WideAmounts,
                 minAmountOut : WideAmounts, routeBytes : RoutePayloads,
                 data : {<<>>}, feeData : {<<>>}, coverData : {<<>>}]

SpecWide == InitWide /\ [][EncodeWide]_vars

(***************************************************************************)
(* Webhook management (addVaultToWebhook, removeVaultFromWebhook).         *)
(***************************************************************************)
\* the vault addresses the functions are called with
HookAddresses == {"vaultA", "vaultB"}

\* initialVaultAddresses of createHeliusWebhook
InitialAddressLists == {<<>>, <<"vault0">>, <<"vault0", "vaultA">>}

\* accountAddresses.includes(vaultAddress)
includes(accountAddresses, vaultAddress) ==
    \E i \in DOMAIN accountAddresses : accountAddresses[i] = vaultAddress

\* accountAddresses.filter((addr) => addr !== vaultAddress)
RECURSIVE filterAddress(_, _)
filterAddress(accountAddresses, vaultAddress) ==
    IF accountAddresses = <<>>
    THEN <<>>
    ELSE (IF Head(accountAddresses) = vaultAddress THEN <<>> ELSE <<Head(accountAddresses)>>)
             \o filterAddress(Tail(accountAddresses), vaultAddress)

\* addVaultToWebhook is called: the GET request is sent
AddVaultToWebhook(c) ==
    /\ hookCall[c].pc = "idle"
    /\ \E vaultAddress \in HookAddresses :
          hookCall' = [hookCall EXCEPT ![c] =
                         [@ EXCEPT !.pc = "a_get", !.op = "add",
                                   !.vaultAddress = vaultAddress]]
    /\ UNCHANGED <<req, relayerInstance, slot, delivered, ownerLookup, calc, webhook>>

\* the GET is answered: not ok throws; an address that is in the list ends
\* the call; otherwise the PUT with the list plus the address is sent
AddVaultGetReturns(c) ==
    /\ hookCall[c].pc = "a_get"
    /\ \E ok \in BOOLEAN :
          hookCall' = [hookCall EXCEPT ![c] =
                         IF ~ok
                         THEN [@ EXCEPT !.pc = "failed"]
                         ELSE IF includes(webhook.accountAddresses, @.vaultAddress)
                         THEN [@ EXCEPT !.pc = "done", !.included = TRUE,
                                        !.accountAddresses = webhook.accountAddresses]
                         ELSE [@ EXCEPT !.pc = "a_put",
                                        !.accountAddresses = webhook.accountAddresses,
                                        !.updatedAddresses =
                                            Append(webhook.accountAddresses,
                                                   hookCall[c].vaultAddress)]]
    /\ UNCHANGED <<req, relayerInstance, slot, delivered, ownerLookup, calc, webhook>>

\* the PUT is answered: ok, the webhook holds the list sent; not ok throws
AddVaultPutReturns(c) ==
    /\ hookCall[c].pc = "a_put"
    /\ \E ok \in BOOLEAN :
          /\ hookCall' = [hookCall EXCEPT ![c] =
                            IF ok
                            THEN [@ EXCEPT !.pc = "done", !.updates = @ + 1]
                            ELSE [@ EXCEPT !.pc = "failed"]]
          /\ webhook' = IF ok
                        THEN [webhook EXCEPT !.accountAddresses =
                                                hookCall[c].updatedAddresses]
                        ELSE webhook
    /\ UNCHANGED <<req, relayerInstance, slot, delivered, ownerLookup, calc>>

\* removeVaultFromWebhook is called: the GET request is sent
RemoveVaultFromWebhook(c) ==
    /\ hookCall[c].pc = "idle"
    /\ \E vaultAddress \in HookAddresses :
          hookCall' = [hookCall EXCEPT ![c] =
                         [@ EXCEPT !.pc = "r_get", !.op = "remove",
                                   !.vaultAddress = vaultAddress]]
    /\ UNCHANGED <<req, relayerInstance, slot, delivered, ownerLookup, calc, webhook>>

\* the GET is answered: not ok throws; otherwise the PUT with the filtered
\* list is sent
RemoveVaultGetReturns(c) ==
    /\ hookCall[c].pc = "r_get"
    /\ \E ok \in BOOLEAN :
          hookCall' = [hookCall EXCEPT ![c] =
                         IF ~ok
                         THEN [@ EXCEPT !.pc = "failed"]
                         ELSE [@ EXCEPT !.pc = "r_put",
                                        !.accountAddresses = webhook.accountAddresses,
                                        !.updatedAddresses =
                                            filterAddress(webhook.accountAddresses,
                                                          hookCall[c].vaultAddress)]]
    /\ UNCHANGED <<req, relayerInstance, slot, delivered, ownerLookup, calc, webhook>>

\* the PUT is answered: ok, the webhook holds the list sent; not ok throws
RemoveVaultPutReturns(c) ==
    /\ hookCall[c].pc = "r_put"
    /\ \E ok \in BOOLEAN :
          /\ hookCall' = [hookCall EXCEPT ![c] =
                            IF ok
                            THEN [@ EXCEPT !.pc = "done", !.updates = @ + 1]
                            ELSE [@ EXCEPT !.pc = "failed"]]
          /\ webhook' = IF ok
                        THEN [webhook EXCEPT !.accountAddresses =
                                                hookCall[c].updatedAddresses]
                        ELSE webhook
    /\ UNCHANGED <<req, relayerInstance, slot, delivered, ownerLookup, calc>>

InitWebhook ==
    /\ req = [r \in Requests |-> IdleRequest]
    /\ relayerInstance = FALSE
    /\ slot = 0
    /\ delivered = 0
    /\ ownerLookup = "resolved"
    /\ calc = NoCalc
    /\ webhook \in {[accountAddresses |-> list, before |-> list] :
                        list \in InitialAddressLists}
    /\ hookCall = NoHookCalls

NextWebhook ==
    \E c \in HookCalls :
        \/ AddVaultToWebhook(c)
        \/ AddVaultGetReturns(c)
        \/ AddVaultPutReturns(c)
        \/ RemoveVaultFromWebhook(c)
        \/ RemoveVaultGetReturns(c)
        \/ RemoveVaultPutReturns(c)

SpecWebhook == InitWebhook /\ [][NextWebhook]_vars

(***************************************************************************)
(* Specifications.                                                         *)
(***************************************************************************)
InitWith(lookup) ==
    /\ req = [r \in Requests |-> IdleRequest]
    /\ relayerInstance = FALSE
    /\ slot = 0
    /\ delivered = 0
    /\ ownerLookup = lookup
    /\ webhook = NoWebhook
    /\ hookCall = NoHookCalls
    /\ calc = NoCalc

\* the dispatcher resolves the owner of a vault address
Init == InitWith("resolved")

Dispatcher ==
    \E r \in Requests :
        \/ Post(r) \/ DispatchTransfer(r) \/ EndTokenTransfers(r)
        \/ DispatchNative(r) \/ FinishBatch(r)

Pipeline ==
    \E r \in Requests :
        \/ BuildPreconditions(r) \/ BuildQuote(r) \/ BuildRoute(r) \/ BuildProbe(r)
        \/ SubmitGuard(r) \/ SubmitSignSend(r) \/ SendReturns(r) \/ ConfirmReturns(r)

Next == Dispatcher \/ Pipeline \/ NewBlock

Spec == Init /\ [][Next]_vars

\* the steps that are taken once they can be: the code of the handlers runs on,
\* and the calls other than the four below are answered.  fetch of the quote,
\* fetch of the swap transaction, getFeeForMessage and confirmTransaction are
\* awaited without a timeout or an abort signal: their answer may never come,
\* so BuildQuote, BuildRoute, BuildProbe and ConfirmReturns are not among them
Fairness ==
    \A r \in Requests :
        /\ WF_vars(DispatchTransfer(r))
        /\ WF_vars(EndTokenTransfers(r))
        /\ WF_vars(DispatchNative(r))
        /\ WF_vars(FinishBatch(r))
        /\ WF_vars(BuildPreconditions(r))
        /\ WF_vars(SubmitGuard(r))
        /\ WF_vars(SubmitSignSend(r))
        /\ WF_vars(SendReturns(r))

SpecLive == Init /\ [][Next]_vars /\ Fairness

\* submitViaRelayer is called with a transaction, as the fee leg of a deposit
\* of 2000 calls it; the transaction is one buildSwapFeeToSolTransaction
\* returned, or that transaction with no recentBlockhash set
SubmittedTransactions ==
    LET owner == CHOOSE o \in Owners : TRUE
        swapIx == swapFeeToSolInstruction(owner, OtherMint, 8, 7,
                      [programId |-> JUPITER_PROGRAM_ID,
                       keys |-> <<AccountMeta(Pool, FALSE, TRUE)>>, data |-> <<>>])
        built == buildTransaction(owner, swapIx, 0, RelayerKey, {5000})
    IN  {built, [built EXCEPT !.recentBlockhash = {}]}

InitRelayer ==
    /\ req \in [Requests ->
                  {[IdleRequest EXCEPT
                       !.pc = "s_hash",
                       !.transfer = TransferEvent(getVaultAddress(CHOOSE o \in Owners : TRUE),
                                                  OtherMint, Amount(2000, 0)),
                       !.invoked = TRUE,
                       !.vaultOwner = CHOOSE o \in Owners : TRUE,
                       !.leg = "fee",
                       !.amount = 8,
                       !.minAmountOut = 7,
                       !.quoted = quoteRequest("fee", OtherMint, 8),
                       !.transaction = transaction,
                       !.vaultBalance = {MIN_REQUIRED_BALANCE},
                       !.swapSignature = TRUE] : transaction \in SubmittedTransactions}]
    /\ relayerInstance = TRUE
    /\ slot = 0
    /\ delivered = 0
    /\ ownerLookup = "resolved"
    /\ webhook = NoWebhook
    /\ hookCall = NoHookCalls
    /\ calc = NoCalc

NextRelayer ==
    \/ \E r \in Requests : SubmitSignSend(r) \/ SendReturns(r) \/ ConfirmReturns(r)
    \/ NewBlock

SpecRelayer == InitRelayer /\ [][NextRelayer]_vars

\* the program as it stands: getVaultOwnerFromAddress is the placeholder of
\* route.ts, so no pass of the loop reaches the try block
InitPlaceholder == InitWith("placeholder")

NextPlaceholder == Dispatcher \/ NewBlock

SpecPlaceholder == InitPlaceholder /\ [][NextPlaceholder]_vars

(***************************************************************************)
(* Properties.                                                             *)
(***************************************************************************)
RECURSIVE fromLE(_)
\* the number a little-endian byte string stands for
fromLE(bytes) == IF bytes = <<>> THEN 0 ELSE Head(bytes) + 256 * fromLE(Tail(bytes))

HasDiscriminator(ix, discriminator) ==
    /\ ix.programId = PROGRAM_ID
    /\ Len(ix.data) >= 8
    /\ SubSeq(ix.data, 1, 8) = discriminator

IsCoverFee(ix) == HasDiscriminator(ix, <<64, 23, 219, 120, 75, 63, 68, 190>>)

IsSwapToSettlement(ix) == HasDiscriminator(ix, <<73, 17, 223, 215, 78, 128, 160, 80>>)

IsSwapFeeToNative(ix) == HasDiscriminator(ix, <<98, 85, 227, 2, 32, 184, 191, 80>>)

\* a request holds the transaction a build function returned from the
\* return of the build function until the try block is left
HoldsTransaction(r) == req[r].transaction # NoTransaction

\* C1: every transaction a build function returned has exactly two
\* instructions, coverFee at index 0 and the swap of its leg (swapToSettlement
\* for buildSwapTransaction, swapFeeToNative for buildSwapFeeToSolTransaction)
\* at index 1.
C1_InstructionOrder ==
    \A r \in Requests :
        HoldsTransaction(r) =>
            LET ixs == req[r].transaction.instructions
            IN  /\ Len(ixs) = 2
                /\ IsCoverFee(ixs[1])
                /\ ~IsCoverFee(ixs[2])
                /\ req[r].leg = "swap" => IsSwapToSettlement(ixs[2])
                /\ req[r].leg = "fee" => IsSwapFeeToNative(ixs[2])

\* buildSwapFeeToSolTransaction has returned a transaction while the other
\* request holds one of buildSwapTransaction
C1_Witness ==
    \E r1, r2 \in Requests :
        /\ req[r1].pc = "s_guard" /\ req[r1].leg = "fee"
        /\ req[r2].pc = "s_guard" /\ req[r2].leg = "swap"

\* C2: a transaction that is signed, serialized and handed to
\* sendRawTransaction holds a coverFee instruction and a swap instruction;
\* none holds one without the other.
C2_BroadcastHoldsBoth ==
    \A r \in Requests :
        (req[r].pc \in {"s_send", "s_confirm"} \/ req[r].transaction.signatures # {}) =>
            LET ixs == req[r].transaction.instructions
            IN  /\ \E i \in DOMAIN ixs : IsCoverFee(ixs[i])
                /\ \E i \in DOMAIN ixs : IsSwapToSettlement(ixs[i]) \/ IsSwapFeeToNative(ixs[i])

\* sendRawTransaction has answered for a signed transaction
C2_Witness ==
    \E r \in Requests :
        /\ req[r].pc = "s_confirm"
        /\ req[r].transaction.signatures # {}

\* C3: totalFee = floor(amountIn * 100 / 10000) and
\* feeToVault = floor(totalFee * 4 / 10), for every amountIn; 1_000_000 gives
\* 10_000 and 4_000, 2_000_000 gives 8_000.
C3_FeeToVault ==
    (calc.op = "fee" /\ calc.done) =>
        /\ 10000 * calc.totalFee <= 100 * calc.amountIn
        /\ 100 * calc.amountIn < 10000 * (calc.totalFee + 1)
        /\ 10 * calc.feeToVault <= 4 * calc.totalFee
        /\ 4 * calc.totalFee < 10 * (calc.feeToVault + 1)
        /\ calc.amountIn = 1000000 => (calc.totalFee = 10000 /\ calc.feeToVault = 4000)
        /\ calc.amountIn = 2000000 => calc.feeToVault = 8000

\* the fee of a deposit of 2_000_000 has been computed
C3_Witness ==
    /\ calc.op = "fee" /\ calc.done
    /\ calc.amountIn = 2000000 /\ calc.feeToVault = 8000

\* the fee_amount a coverFee instruction carries
CoverFeeAmount(ix) == fromLE(SubSeq(ix.data, 9, 16))

\* C4: the fee in the coverFee instruction is the value the network returned
\* for the probe plus 10000 whenever it returned a value (0 included), and
\* 50000 plus 10000 only when it returned none.
C4_FeeIsProbeValuePlusMargin ==
    \A r \in Requests :
        req[r].pc = "s_guard" =>
            CoverFeeAmount(req[r].transaction.instructions[1]) =
                (IF req[r].feeEstimate = {}
                 THEN 50000
                 ELSE CHOOSE v \in req[r].feeEstimate : TRUE) + 10000

\* the swapToSettlement payload read back: u64 LE, u64 LE, u32 LE length, bytes
DecodedAmountIn(data) == fromLE(SubSeq(data, 9, 16))

DecodedMinAmountOut(data) == fromLE(SubSeq(data, 17, 24))

DecodedRouteLen(data) == fromLE(SubSeq(data, 25, 28))

DecodedRouteBytes(data) == SubSeq(data, 29, 28 + DecodedRouteLen(data))

\* C5: the bytes built for swapToSettlement are 8 + 8 + 8 + 4 + len(route)
\* long and decode to the (amountIn, minAmountOut, routeBytes) they were
\* built from.
C5_EncodingRoundTrip ==
    (calc.op = "encode" /\ calc.done) =>
        /\ Len(calc.data) = 8 + 8 + 8 + 4 + Len(calc.routeBytes)
        /\ SubSeq(calc.data, 1, 8) = <<73, 17, 223, 215, 78, 128, 160, 80>>
        /\ DecodedAmountIn(calc.data) = calc.amountIn
        /\ DecodedMinAmountOut(calc.data) = calc.minAmountOut
        /\ DecodedRouteLen(calc.data) = Len(calc.routeBytes)
        /\ DecodedRouteBytes(calc.data) = calc.routeBytes

\* a route of 65535 bytes has been encoded with amounts that fill several bytes
C5_Witness ==
    /\ calc.op = "encode" /\ calc.done
    /\ Len(calc.routeBytes) = 65535
    /\ calc.amountIn = 65536 /\ calc.minAmountOut = 2147483647

C7_BalanceGuard ==
    \A r \in Requests :
        \A b \in req[r].vaultBalance :
            IF b < 100000
            THEN /\ req[r].pc = "loop"
                 /\ req[r].failure
                 /\ req[r].transaction = NoTransaction
            ELSE req[r].pc \in {"s_hash", "s_send", "s_confirm"}

\* the guard has let a balance of exactly 100000 pass in one request and has
\* refused a balance of 99999 in the other
C7_Witness ==
    \E r1, r2 \in Requests :
        /\ req[r1].vaultBalance = {100000}
        /\ req[r1].pc = "s_hash"
        /\ req[r2].vaultBalance = {99999}

IsKnownVault(address) == \E o \in Owners : getVaultAddress(o) = address

Eligible(transfer) ==
    /\ IsKnownVault(transfer.toTokenAccount)
    /\ transfer.mint # CBBTC_MINT
    /\ transfer.tokenAmount.whole > 0 \/ transfer.tokenAmount.tenths > 0

\* C9: buildSwapTransaction is called for an entry of tokenTransfers if and
\* only if its destination is a known vault, its mint is not the settlement
\* asset and its amount is greater than zero.
C9_PipelineIffEligible ==
    \A r \in Requests :
        req[r].transfer # NoEvent => (req[r].invoked <=> Eligible(req[r].transfer))

\* C10: at most one request is between the call of getLatestBlockhash in
\* submitTransaction and the return of sendRawTransaction.
C10_MutualExclusion ==
    Cardinality({r \in Requests : req[r].pc \in {"s_hash", "s_send"}}) <= 1

\* a request is inside the pipeline for the entry of tokenTransfers it read last
InPipeline(r) ==
    req[r].pc \in {"b_pre", "b_quote", "b_route", "b_probe",
                   "s_guard", "s_hash", "s_send", "s_confirm"}

\* C11: every pipeline invocation eventually ends, with a signature or in the
\* catch block, and the dispatcher is back in its loop, also when the quote,
\* the swap transaction, the fee probe or the confirmation is never answered.
C11_PipelineEnds ==
    \A r \in Requests : InPipeline(r) ~> (req[r].pc \in {"loop", "native", "done"})

\* C12: after a confirmTransaction result that carries an error the call has
\* failed: no signature was returned for that transaction and the fee leg was
\* not started.
C12_SignatureOnlyWhenConfirmed ==
    \A r \in Requests :
        req[r].err => (req[r].failure /\ req[r].leg # "fee" /\ ~req[r].feeSignature)

\* C13: once the fee leg has failed after the primary swap returned its
\* signature, the request is back in the loop over tokenTransfers with the
\* failure logged: the primary swap's outcome stands, no leg is running
\* again, and the response is not an error.
C13_FeeLegFailureContained ==
    \A r \in Requests :
        (req[r].swapSignature /\ req[r].failure) =>
            /\ req[r].pc = "loop"
            /\ req[r].leg = "none"
            /\ req[r].transaction = NoTransaction
            /\ ~req[r].feeSignature
            /\ req[r].status = 0

\* the fee leg of one request failed at the broadcast, that of the other one
\* at its balance guard
C13_Witness ==
    \E r1, r2 \in Requests :
        /\ req[r1].swapSignature /\ req[r1].failure /\ req[r1].broadcasts = 1
        /\ req[r2].swapSignature /\ req[r2].failure /\ req[r2].vaultBalance = {99999}

\* C15: for an entry of nativeTransfers that sends lamports to a vault the
\* conversion pipeline is invoked.
C15_NativeTransferConverted ==
    \A r \in Requests :
        (IsKnownVault(req[r].native.toUserAccount) /\ req[r].native.amount > 0) =>
            req[r].invoked

\* the amount of the entry of tokenTransfers a request read last
DepositedAmount(r) == req[r].transfer.tokenAmount.whole

\* C16: the fee leg runs only after the primary swap returned a signature
\* and only with feeToVault(A) > 0, on the deposited asset, for the amount
\* feeToVault(A), with wrapped SOL as output, in a transaction of its own; and
\* after a primary signature it is started exactly when feeToVault(A) > 0
\* (a deposit of 2000 gives a second leg of 8).
C16_FeeLegTrigger ==
    \A r \in Requests :
        /\ req[r].leg = "fee" =>
              /\ req[r].swapSignature
              /\ feeToVault(DepositedAmount(r)) > 0
              /\ req[r].amount = feeToVault(DepositedAmount(r))
              /\ req[r].quoted = [inputMint |-> req[r].transfer.mint,
                                  outputMint |-> <<"So11111111111111111111111111111111111112">>,
                                  amount |-> feeToVault(DepositedAmount(r))]
              /\ DepositedAmount(r) = 2000 => req[r].amount = 8
              /\ HoldsTransaction(r) =>
                    /\ IsSwapFeeToNative(req[r].transaction.instructions[2])
                    /\ DecodedAmountIn(req[r].transaction.instructions[2].data)
                          = feeToVault(DepositedAmount(r))
                    /\ \A i \in DOMAIN req[r].transaction.instructions :
                          ~IsSwapToSettlement(req[r].transaction.instructions[i])
        /\ req[r].swapSignature =>
              IF feeToVault(DepositedAmount(r)) > 0
              THEN req[r].leg = "fee" \/ req[r].feeSignature \/ req[r].failure
              ELSE req[r].leg = "none" /\ ~req[r].feeSignature /\ ~req[r].failure

\* one request holds the fee-leg transaction of a deposit of 2000, the other
\* one is back in the loop after the primary swap of a deposit of 250
C16_Witness ==
    \E r1, r2 \in Requests :
        /\ req[r1].leg = "fee" /\ req[r1].pc = "s_guard" /\ DepositedAmount(r1) = 2000
        /\ req[r2].swapSignature /\ req[r2].pc = "loop" /\ DepositedAmount(r2) = 250

\* the aggregator's transaction has an instruction of the aggregator program
HasJupiterInstruction(instructions) ==
    \E i \in DOMAIN instructions :
        instructions[i].programId = <<"JUP6LkbZbjS1jKKwapdHNy74zcZ3tLUZoi5QNyVTaV4">>

\* C18: when the transaction the swap endpoint answered with has no
\* instruction of the aggregator program, the build call has failed: the
\* failure is logged, no fee probe was made, there is no transaction, nothing
\* was signed or sent, and no build call is running for the entry again.
C18_InstructionNotFound ==
    \A r \in Requests :
        (req[r].swapTransaction # <<>> /\ ~HasJupiterInstruction(req[r].swapTransaction)) =>
            /\ req[r].pc = "loop"
            /\ req[r].failure
            /\ req[r].swapIx = NoInstruction
            /\ req[r].feeEstimate = {}
            /\ req[r].transaction = NoTransaction
            /\ req[r].blockhash = {}
            /\ req[r].broadcasts = 0

\* buildSwapTransaction of one request and buildSwapFeeToSolTransaction of
\* the other one have failed on a transaction without a Jupiter instruction
C18_Witness ==
    \E r1, r2 \in Requests :
        /\ req[r1].swapTransaction = <<ComputeBudgetIx>>
        /\ req[r1].failure /\ ~req[r1].swapSignature
        /\ req[r2].swapTransaction = <<ComputeBudgetIx>>
        /\ req[r2].failure /\ req[r2].swapSignature

\* C20: a submitTransaction call that ended on a failed broadcast has sent
\* the transaction maxRetries times.
C20_BroadcastRetried ==
    \A r \in Requests :
        (req[r].pc = "loop" /\ req[r].broadcasts > 0) => req[r].broadcasts >= 3

RECURSIVE ByteOf(_, _)
\* byte k of the number n, byte 0 being the least significant one
ByteOf(n, k) == IF k = 0 THEN n % 256 ELSE ByteOf(n \div 256, k - 1)

\* C14: the data of the coverFee instruction is 16 bytes: the discriminator
\* [64,23,219,120,75,63,68,190], then feeAmount as u64 little-endian.
C14_CoverFeeData ==
    (calc.op = "cover" /\ calc.done) =>
        /\ Len(calc.data) = 16
        /\ SubSeq(calc.data, 1, 8) = <<64, 23, 219, 120, 75, 63, 68, 190>>
        /\ \A k \in 0..7 : calc.data[9 + k] = ByteOf(calc.feeAmount, k)
        /\ fromLE(SubSeq(calc.data, 9, 16)) = calc.feeAmount

\* the fee of the fallback, 60000, has been encoded
C14_Witness ==
    /\ calc.op = "cover" /\ calc.done
    /\ calc.feeAmount = 60000
    /\ SubSeq(calc.data, 9, 16) = <<96, 234, 0, 0, 0, 0, 0, 0>>

\* C17: after the extraction the vault is in the account list, flagged as
\* signer; a vault that was absent is the first account, signer and writable,
\* followed by the original accounts unchanged; a vault that was present
\* keeps its place and its writable flag, and the list has no entry more.
C17_VaultInRouteAccounts ==
    (calc.op = "accounts" /\ calc.done) =>
        LET keys == calc.keys
            out == calc.jupiterAccounts
            present == \E i \in DOMAIN keys : keys[i].pubkey = SomeVault
        IN  /\ \E i \in DOMAIN out : out[i].pubkey = SomeVault /\ out[i].isSigner
            /\ ~present =>
                  /\ out[1] = [pubkey |-> SomeVault, isSigner |-> TRUE, isWritable |-> TRUE]
                  /\ Tail(out) = keys
            /\ present =>
                  /\ Len(out) = Len(keys)
                  /\ \A i \in DOMAIN keys :
                        /\ out[i].pubkey = keys[i].pubkey
                        /\ out[i].isWritable = keys[i].isWritable
                        /\ keys[i].pubkey # SomeVault => out[i] = keys[i]

\* the vault was the second of three accounts, neither signer nor writable
C17_Witness ==
    /\ calc.op = "accounts" /\ calc.done
    /\ Len(calc.keys) = 3
    /\ calc.keys[1].pubkey = Pool /\ calc.keys[3].pubkey = Pool
    /\ calc.keys[2] = [pubkey |-> SomeVault, isSigner |-> FALSE, isWritable |-> FALSE]
    /\ calc.jupiterAccounts[2] = [pubkey |-> SomeVault, isSigner |-> TRUE, isWritable |-> FALSE]

\* C19: the step of submitTransaction that signs and sends sets the
\* transaction's recentBlockhash to the blockhash just fetched if it was
\* unset and leaves it as it was otherwise, and signs an unsigned transaction;
\* sendRawTransaction is answered for the signed transaction only, and
\* confirmTransaction only after sendRawTransaction, the transaction unchanged.
C19_BlockhashAttachedIfUnset ==
    [][\A r \in Requests :
          /\ req'[r].pc = "s_send" =>
                \/ req'[r] = req[r]
                \/ /\ req[r].pc = "s_hash"
                   /\ req[r].transaction.signatures = {}
                   /\ req'[r].transaction.recentBlockhash =
                         (IF req[r].transaction.recentBlockhash = {}
                          THEN {slot}
                          ELSE req[r].transaction.recentBlockhash)
                   /\ req'[r].transaction.signatures = {RelayerKey}
                   /\ req'[r].transaction.instructions = req[r].transaction.instructions
          /\ req'[r].pc = "s_confirm" =>
                /\ req[r].pc \in {"s_send", "s_confirm"}
                /\ req'[r].transaction = req[r].transaction
                /\ req[r].transaction.signatures = {RelayerKey}]_vars

\* one transaction got the blockhash of slot 1 attached; the other one kept
\* the blockhash of slot 0 it came with though slot 1 was fetched
C19_Witness ==
    \E r1, r2 \in Requests :
        /\ req[r1].pc = "s_confirm"
        /\ req[r1].transaction.recentBlockhash = {1}
        /\ req[r2].pc = "s_confirm"
        /\ req[r2].transaction.recentBlockhash = {0}
        /\ req[r2].blockhash = {1}

\* C21: a transaction a build function returned has the relayer as fee
\* payer and the blockhash of the probe transaction whose fee was estimated,
\* which holds the same swap instruction.
C21_BlockhashOfProbe ==
    \A r \in Requests :
        HoldsTransaction(r) =>
            /\ req[r].transaction.feePayer = RelayerKey
            /\ req[r].probe.feePayer = RelayerKey
            /\ req[r].probe.recentBlockhash # {}
            /\ req[r].transaction.recentBlockhash = req[r].probe.recentBlockhash
            /\ req[r].probe.instructions = <<req[r].transaction.instructions[2]>>

\* a block was produced between the build and the balance check of
\* submitSwapWithVaultFees: the transaction holds the blockhash of the probe
C21_Witness ==
    \E r \in Requests :
        /\ req[r].pc = "s_guard"
        /\ slot = 1
        /\ req[r].probe.recentBlockhash = {0}
        /\ req[r].transaction.recentBlockhash = {0}

\* C22: a transaction is signed and sent with a blockhash that is still
\* valid at the slot of getLatestBlockhash in submitTransaction.
C22_NoExpiredBlockhashSigned ==
    \A r \in Requests :
        req[r].pc \in {"s_send", "s_confirm"} =>
            \A b \in req[r].transaction.recentBlockhash :
                \A s \in req[r].blockhash : s - b <= BlockhashValidity

\* C23: no build call goes on past the quote step with a quote that has no
\* outAmount (the quotes of the model carry outAmount 7 or none, so a
\* minAmountOut of 0 past the quote step is that of a quote without one).
C23_AggregatorFailureAborts ==
    \A r \in Requests :
        req[r].pc \in {"b_route", "b_probe", "s_guard", "s_hash", "s_send", "s_confirm"} =>
            req[r].minAmountOut # 0

\* C24: when getAccount found no token account or less than the amount, or
\* getBalance answered less than 100000, buildSwapTransaction has failed: no
\* quote or swap transaction was requested, there is no transaction, nothing
\* was sent, and the balance was not asked for without a token account.
C24_PreconditionsFirst ==
    \A r \in Requests :
        LET p == req[r].precondition
        IN  (p.account \in {"missing", "less"} \/ \E b \in p.balance : b < 100000) =>
                /\ req[r].pc = "loop"
                /\ req[r].failure
                /\ req[r].quoted = NoQuoteRequest
                /\ req[r].swapTransaction = <<>>
                /\ req[r].probe = NoTransaction
                /\ req[r].transaction = NoTransaction
                /\ req[r].broadcasts = 0
                /\ ~req[r].swapSignature
                /\ p.account # "enough" => p.balance = {}

\* buildSwapTransaction failed on a token account that holds too little in
\* one request and on a balance of 99999 in the other
C24_Witness ==
    \E r1, r2 \in Requests :
        /\ req[r1].precondition.account = "less" /\ req[r1].failure
        /\ req[r2].precondition.balance = {99999} /\ req[r2].failure

\* the request is inside submitSwapWithVaultFees
InSubmit(r) == req[r].pc \in {"s_guard", "s_hash", "s_send", "s_confirm"}

\* C25: a submitTransaction call sends its transaction once; the primary
\* swap is submitted only while no signature and no failure is logged for
\* the event, the fee leg only while its signature is not; after a failure
\* (an expired confirmation included) the event's pipeline is over.
C25_BroadcastAtMostOnce ==
    \A r \in Requests :
        /\ req[r].broadcasts <= 1
        /\ req[r].failure => (req[r].pc = "loop" /\ req[r].leg = "none")
        /\ (InSubmit(r) /\ req[r].leg = "swap") => ~req[r].swapSignature
        /\ (InSubmit(r) /\ req[r].leg = "fee") =>
              (req[r].swapSignature /\ ~req[r].feeSignature)
        /\ req[r].transaction.signatures # {} => req[r].pc \in {"s_send", "s_confirm"}

\* the confirmation of the primary swap expired in one request, that of the
\* fee leg in the other
C25_Witness ==
    \E r1, r2 \in Requests :
        /\ req[r1].pc = "loop" /\ req[r1].blockhash # {} /\ ~req[r1].swapSignature
        /\ req[r2].pc = "loop" /\ req[r2].blockhash # {} /\ req[r2].swapSignature

\* C30: every key a built transaction requires a signature of is a key
\* submitTransaction signs with, that is the relayer's.
C30_RequiredSignersSign ==
    \A r \in Requests :
        HoldsTransaction(r) => requiredSigners(req[r].transaction) \subseteq {RelayerKey}

\* C26: when the same deposit (a transfer of a whole amount that passes the
\* dispatcher's tests) was delivered in two webhook requests, the swap
\* pipeline was invoked for it in both.
C26_RedeliveredDepositInvokedTwice ==
    \A r1, r2 \in Requests :
        ( /\ r1 # r2
          /\ req[r1].transfer # NoEvent
          /\ req[r1].transfer = req[r2].transfer
          /\ Eligible(req[r1].transfer)
          /\ req[r1].transfer.tokenAmount.tenths = 0 ) =>
            (req[r1].invoked /\ req[r2].invoked)

\* C27: for the same (amountIn, minAmountOut, routeBytes) the data of the
\* swapFeeToNative instruction and of the swapToSettlement instruction are
\* equally long and equal from offset 8 on, each starts with its own
\* discriminator, and the three discriminators are pairwise distinct.
C27_SamePayloadShape ==
    (calc.op = "encode" /\ calc.done) =>
        /\ Len(calc.feeData) = Len(calc.data)
        /\ SubSeq(calc.feeData, 9, Len(calc.feeData)) = SubSeq(calc.data, 9, Len(calc.data))
        /\ SubSeq(calc.feeData, 1, 8) = <<98, 85, 227, 2, 32, 184, 191, 80>>
        /\ SubSeq(calc.data, 1, 8) = <<73, 17, 223, 215, 78, 128, 160, 80>>
        /\ SubSeq(calc.feeData, 1, 8) # SubSeq(calc.data, 1, 8)
        /\ COVER_FEE_DISCRIMINATOR # SubSeq(calc.data, 1, 8)
        /\ COVER_FEE_DISCRIMINATOR # SubSeq(calc.feeData, 1, 8)

\* both encodings were built from an amount and a minimum output that differ
\* and a route of LongRouteLen bytes
C27_Witness ==
    /\ calc.op = "encode" /\ calc.done
    /\ calc.amountIn = 65536 /\ calc.minAmountOut = 255
    /\ Len(calc.routeBytes) = LongRouteLen
    /\ Len(calc.feeData) = 28 + LongRouteLen
    /\ calc.feeData # calc.data

\* the public keys of the first n accounts of a key list
PrefixKeys(keys, n) == [i \in 1..n |-> keys[i].pubkey]

\* C28: the key list of the swapToSettlement instruction is the ten fixed
\* accounts in their order followed by the extracted route accounts in the
\* order of the extracted list, and that of the swapFeeToNative instruction
\* is its eight fixed accounts followed by the same.
C28_FixedPrefixThenRoute ==
    (calc.op = "accounts" /\ calc.done) =>
        /\ Len(calc.swapKeys) = 10 + Len(calc.jupiterAccounts)
        /\ PrefixKeys(calc.swapKeys, 10) =
              << SomeVault, SomeOwner, OtherMint, CBBTC_MINT,
                 getAssociatedTokenAddress(OtherMint, SomeVault),
                 getAssociatedTokenAddress(OtherMint, FEE_RECIPIENT),
                 getAssociatedTokenAddress(CBBTC_MINT, SomeVault),
                 JUPITER_PROGRAM_ID, TOKEN_PROGRAM_ID, SystemProgramId >>
        /\ SubSeq(calc.swapKeys, 11, Len(calc.swapKeys)) = calc.jupiterAccounts
        /\ Len(calc.feeKeys) = 8 + Len(calc.jupiterAccounts)
        /\ PrefixKeys(calc.feeKeys, 8) =
              << SomeVault, SomeOwner, OtherMint,
                 getAssociatedTokenAddress(OtherMint, SomeVault),
                 FEE_RECIPIENT,
                 JUPITER_PROGRAM_ID, TOKEN_PROGRAM_ID, SystemProgramId >>
        /\ SubSeq(calc.feeKeys, 9, Len(calc.feeKeys)) = calc.jupiterAccounts

\* the key lists were built from a route of MaxKeys pool accounts, to which
\* the extraction added the vault
C28_Witness ==
    /\ calc.op = "accounts" /\ calc.done
    /\ Len(calc.keys) = MaxKeys
    /\ \A i \in DOMAIN calc.keys : calc.keys[i].pubkey = Pool
    /\ Len(calc.swapKeys) = 11 + MaxKeys
    /\ calc.swapKeys[11].pubkey = SomeVault
    /\ calc.feeKeys[9].pubkey = SomeVault

\* C29: every call of getVaultAddress and every derivation of
\* initializeVaultClient for one owner gives the same address, and the
\* derivations for two different owners never have the same inputs.
C29_VaultAddressOfOwner ==
    calc.op = "derive" =>
        /\ \A i, j \in DOMAIN calc.server :
              /\ calc.server[i] = calc.server[1]
              /\ calc.client[j] = calc.server[i]
        /\ \A i, j \in DOMAIN calc.server :
              (calc.owner = calc.otherOwner) <=> (calc.server[i] = calc.other[j])

\* the address was derived MaxCalls times on both sides for one owner and
\* for another owner
C29_Witness ==
    /\ calc.op = "derive"
    /\ Len(calc.server) = MaxCalls /\ Len(calc.client) = MaxCalls
    /\ calc.owner # calc.otherOwner
    /\ calc.client[MaxCalls] = getVaultAddress(calc.owner)

\* C31: while submitTransaction sends and awaits the confirmation, the
\* blockhash it hands to confirmTransaction is the recentBlockhash of the
\* transaction it signed.
C31_ConfirmedWithSignedBlockhash ==
    \A r \in Requests :
        req[r].pc \in {"s_send", "s_confirm"} =>
            req[r].blockhash = req[r].transaction.recentBlockhash

\* C32: a request whose body is an array of TRANSFER or SWAP transactions
\* is not answered with status 400.
C32_ArrayBodyProcessed ==
    \A r \in Requests : req[r].isArray => req[r].status # 400

\* C33: while a transaction is being sent or confirmed, the balance the
\* guard of submitSwapWithVaultFees read is at least the fee amount encoded
\* in the transaction's cover fee instruction.
C33_BalanceCoversEmbeddedFee ==
    \A r \in Requests :
        req[r].pc \in {"s_send", "s_confirm"} =>
            \A b \in req[r].vaultBalance :
                b >= CoverFeeAmount(req[r].transaction.instructions[1])

\* the outAmount values the quotes of the aggregator carry
QuotedOutAmounts == UNION {answer.outAmount : answer \in QuoteAnswers}

\* C34: the minAmountOut encoded in the swap payload of a built transaction
\* is the outAmount of a quote the aggregator gave.
C34_MinAmountOutIsQuoted ==
    \A r \in Requests :
        HoldsTransaction(r) =>
            DecodedMinAmountOut(req[r].transaction.instructions[2].data)
                \in QuotedOutAmounts

\* C35: in every instruction of a built transaction the vault (the first
\* account) is the address derived for the owner (the second account) under
\* the program the instruction is addressed to.
C35_VaultOfTargetedProgram ==
    \A r \in Requests :
        HoldsTransaction(r) =>
            \A i \in DOMAIN req[r].transaction.instructions :
                LET ix == req[r].transaction.instructions[i]
                IN  ix.keys[1].pubkey =
                        <<"pda">> \o ix.programId \o <<"vault">> \o ix.keys[2].pubkey

\* how often an address is in a list
Occurrences(accountAddresses, vaultAddress) ==
    Cardinality({i \in DOMAIN accountAddresses : accountAddresses[i] = vaultAddress})

\* C36: when all the calls were addVaultToWebhook calls and all have
\* completed, every added address is in the webhook's list exactly once,
\* every address of the list the webhook started with is still in it, and a
\* call that found its address in the list has issued no update.
C36_AddedVaultsAllListed ==
    (\A c \in HookCalls : hookCall[c].pc = "done" /\ hookCall[c].op = "add") =>
        /\ \A c \in HookCalls :
              Occurrences(webhook.accountAddresses, hookCall[c].vaultAddress) = 1
        /\ \A i \in DOMAIN webhook.before :
              includes(webhook.accountAddresses, webhook.before[i])
        /\ \A c \in HookCalls : hookCall[c].included => hookCall[c].updates = 0

\* the bytes of a field without its padding: the BN it holds
RECURSIVE Significant(_)
Significant(bytes) ==
    IF bytes = <<>> \/ bytes[Len(bytes)] # 0
    THEN bytes
    ELSE Significant(SubSeq(bytes, 1, Len(bytes) - 1))

\* C37: the encoder fails exactly when an amount does not fit its 8-byte
\* field; when it does not fail each 8-byte field holds the whole amount,
\* and the 4-byte length field holds the number of route bytes after it.
C37_NoSilentTruncation ==
    (calc.op = "wide" /\ calc.done) =>
        LET overflow == Len(calc.amountIn) > 8 \/ Len(calc.minAmountOut) > 8
        IN  /\ overflow <=> calc.data = <<>>
            /\ overflow <=> calc.feeData = <<>>
            /\ Len(calc.amountIn) > 8 <=> calc.coverData = <<>>
            /\ \A data \in {calc.data, calc.feeData} \ {<<>>} :
                  /\ Significant(SubSeq(data, 9, 16)) = calc.amountIn
                  /\ Significant(SubSeq(data, 17, 24)) = calc.minAmountOut
                  /\ fromLE(SubSeq(data, 25, 28)) = Len(calc.routeBytes)
                  /\ Len(data) = 28 + Len(calc.routeBytes)
                  /\ SubSeq(data, 29, Len(data)) = calc.routeBytes
            /\ calc.coverData # <<>> =>
                  /\ Len(calc.coverData) = 16
                  /\ Significant(SubSeq(calc.coverData, 9, 16)) = calc.amountIn

\* the encoder was given an amount of 2^64 and threw, also for the cover fee
C37_Witness ==
    /\ calc.op = "wide" /\ calc.done
    /\ calc.amountIn = <<0, 0, 0, 0, 0, 0, 0, 0, 1>>
    /\ calc.minAmountOut = <<255>>
    /\ Len(calc.routeBytes) = LongRouteLen
    /\ calc.data = <<>> /\ calc.feeData = <<>> /\ calc.coverData = <<>>

====
